---- MODULE Spec2Model ----
(***************************************************************************)
(* Model of network_monitor.go: the device registry pass (fetchDevices),   *)
(* the recurring statistics pass (fetchLanStatistics), the JSON snapshot   *)
(* handler (dataHandler) and main, over the shared ChartData store guarded *)
(* by chartData.mu.                                                        *)
(*                                                                         *)
(* Texts are sequences of one-character strings, so that strings.Trim,     *)
(* strings.ReplaceAll and strconv.ParseInt are computed, not assumed.      *)
(* A []int64 slice is a backing array (a sequence whose length is the      *)
(* capacity) and a length, so that append's sharing of a backing array is  *)
(* part of the model.                                                      *)
(***************************************************************************)
EXTENDS Integers, Sequences, FiniteSets, TLC

\* ------------------------------------------------------------------ bounds
\* most row-level children of the device table in a fetched document
MaxRegRows == 4
\* most data rows of the statistics table in a fetched document
MaxStatRows == 2
\* most iterations of the recurring statistics loop that are explored
MaxPasses == 2

\* ------------------------------------------------------------ text helpers
\* the cutset " \t\n" of every strings.Trim call in the program
Cutset == {" ", "\t", "\n"}

RECURSIVE TrimLeft(_)
TrimLeft(s) ==
  IF s = <<>> THEN <<>>
  ELSE IF Head(s) \in Cutset THEN TrimLeft(Tail(s)) ELSE s

RECURSIVE TrimRight(_)
TrimRight(s) ==
  IF s = <<>> THEN <<>>
  ELSE IF s[Len(s)] \in Cutset THEN TrimRight(SubSeq(s, 1, Len(s) - 1)) ELSE s

\* strings.Trim(s, " \t\n")
Trim(s) == TrimRight(TrimLeft(s))

IsNotNewline(c) == c # "\n"

\* strings.ReplaceAll(s, "\n", "")
ReplaceAllNewline(s) == SelectSeq(s, IsNotNewline)

Digits == {"0", "1", "2", "3", "4", "5", "6", "7", "8", "9"}

DigitVal(c) ==
  CASE c = "0" -> 0 [] c = "1" -> 1 [] c = "2" -> 2 [] c = "3" -> 3
    [] c = "4" -> 4 [] c = "5" -> 5 [] c = "6" -> 6 [] c = "7" -> 7
    [] c = "8" -> 8 [] c = "9" -> 9

\* the bitSize argument of both strconv.ParseInt calls
ParseBitSize == 32

\* 2^(bitSize-1) - 1, the largest value ParseInt accepts without a range error
MaxParse == (2^(ParseBitSize - 2) - 1) + 2^(ParseBitSize - 2)

\* the decimal digits of 2^(bitSize-1), the one magnitude a negative text may
\* have beyond MaxParse
CutoffDigits == <<"2", "1", "4", "7", "4", "8", "3", "6", "4", "8">>

RECURSIVE StripZeros(_)
StripZeros(s) ==
  IF Len(s) > 1 /\ Head(s) = "0" THEN StripZeros(Tail(s)) ELSE s

\* the unsigned accumulation loop of ParseInt: -1 stands for "beyond
\* MaxParse" (the accumulation stops there, as TLC has no integers beyond
\* 2^31 - 1)
RECURSIVE Accumulate(_, _)
Accumulate(acc, s) ==
  IF s = <<>> THEN acc
  ELSE IF acc = -1 THEN -1
  ELSE IF acc > (MaxParse - DigitVal(Head(s))) \div 10 THEN -1
  ELSE Accumulate(acc * 10 + DigitVal(Head(s)), Tail(s))

HasSign(s) == s # <<>> /\ Head(s) \in {"+", "-"}

Unsigned(s) == IF HasSign(s) THEN Tail(s) ELSE s

\* ParseInt's syntax check for base 10: optional sign, then one or more digits
IsBase10(s) ==
  /\ Unsigned(s) # <<>>
  /\ \A i \in 1..Len(Unsigned(s)) : Unsigned(s)[i] \in Digits

\* strconv.ParseInt(s, 10, 32): err is "syntax", "range" or "nil"
ParseInt(s) ==
  IF ~IsBase10(s) THEN [err |-> "syntax", val |-> 0]
  ELSE LET neg == Head(s) = "-"
           un  == Accumulate(0, Unsigned(s))
       IN IF un # -1
            THEN [err |-> "nil", val |-> IF neg THEN 0 - un ELSE un]
          ELSE IF neg /\ StripZeros(Unsigned(s)) = CutoffDigits
            THEN [err |-> "nil", val |-> (0 - MaxParse) - 1]
          ELSE [err |-> "range", val |-> IF neg THEN (0 - MaxParse) - 1 ELSE MaxParse]

\* ------------------------------------------------------------ []int64 slices
\* A DeviceData value on the heap.  txArr/rxArr are the backing arrays of
\* TransmitBytes/ReceiveBytes (their lengths are the capacities), txLen/rxLen
\* the slice lengths; shared says that both slices point at one array.
NewDeviceData(name) ==
  [DeviceName |-> name, txArr |-> <<>>, txLen |-> 0,
   rxArr |-> <<>>, rxLen |-> 0, shared |-> FALSE]

\* the elements a reader of the slice sees
TransmitBytes(d) == SubSeq(d.txArr, 1, d.txLen)
ReceiveBytes(d) == SubSeq(d.rxArr, 1, d.rxLen)

Zeros(n) == [i \in 1..n |-> 0]

\* capacity of the array append allocates when the old one is full
GrowCap(cap) == IF cap = 0 THEN 1 ELSE 2 * cap

\* the array append(TransmitBytes, b) writes: the old one in place when it has
\* room, a fresh larger copy otherwise
AppendedArr(d, b) ==
  IF d.txLen < Len(d.txArr)
    THEN [d.txArr EXCEPT ![d.txLen + 1] = b]
    ELSE SubSeq(d.txArr, 1, d.txLen) \o <<b>>
           \o Zeros(GrowCap(Len(d.txArr)) - d.txLen - 1)

\* deviceData.TransmitBytes = append(deviceData.TransmitBytes, bytes)
AppendTransmit(d, b) ==
  IF d.txLen < Len(d.txArr)
    THEN [d EXCEPT !.txArr = AppendedArr(d, b), !.txLen = @ + 1,
                   !.rxArr = IF d.shared THEN AppendedArr(d, b) ELSE @]
    ELSE [d EXCEPT !.txArr = AppendedArr(d, b), !.txLen = @ + 1,
                   !.shared = FALSE]

\* deviceData.ReceiveBytes = append(deviceData.TransmitBytes, bytes)
AppendReceive(d, b) ==
  IF d.txLen < Len(d.txArr)
    THEN [d EXCEPT !.txArr = AppendedArr(d, b), !.rxArr = AppendedArr(d, b),
                   !.rxLen = d.txLen + 1, !.shared = TRUE]
    ELSE [d EXCEPT !.rxArr = AppendedArr(d, b), !.rxLen = d.txLen + 1,
                   !.shared = FALSE]

\* ------------------------------------------------------- fetched documents
\* texts of the data cells of the device table
RegTexts == { <<" ", "A", "\n">>, <<"B", "\n", "b">> }

\* A row-level child of the device table: a tr (th: it has a header cell
\* whose text is "MAC Address"; hasTd/td: its first data cell) or another
\* node (whitespace text between rows).
RegNodes ==
  [atom : {"tr"}, th : BOOLEAN, hasTd : {TRUE}, td : RegTexts]
    \cup [atom : {"tr"}, th : BOOLEAN, hasTd : {FALSE}, td : {<<>>}]
    \cup [atom : {"text"}, th : {FALSE}, hasTd : {FALSE}, td : {<<>>}]

SeqsUpTo(S, n) == UNION { [1..k -> S] : k \in 0..n }

\* what fetchAndParse can return for devices.ha
RegFetches ==
  { [err |-> TRUE, table |-> FALSE, rows |-> <<>>],
    [err |-> FALSE, table |-> FALSE, rows |-> <<>>] }
    \cup [err : {FALSE}, table : {TRUE}, rows : SeqsUpTo(RegNodes, MaxRegRows)]

NoFetch == [err |-> FALSE, table |-> FALSE, rows |-> <<>>]

\* findDescendant(table, atom == Tr) over the row-level children: index of
\* the first tr, 0 for nil
RECURSIVE FirstWithAtom(_, _, _)
FirstWithAtom(nodes, a, i) ==
  IF i > Len(nodes) THEN 0
  ELSE IF nodes[i].atom = a THEN i ELSE FirstWithAtom(nodes, a, i + 1)

\* findFollowupSibling(node): the first later sibling with node's DataAtom,
\* 0 for nil
findFollowupSibling(nodes, i) == FirstWithAtom(nodes, nodes[i].atom, i + 1)

\* --------------------------------------------------------------- the state
VARIABLES
  mpc,                 \* position of the main goroutine
  ddoc,                \* fetchDevices: doc, err returned by fetchAndParse
  dtr,                 \* fetchDevices: the loop variable tr (0 = nil)
  dret,                \* fetchDevices: how the call ends: nil, err or panic
  mu,                  \* chartData.mu: "free" or the goroutine holding it
  heap,                \* the DeviceData values, by pointer
  Devices,             \* chartData.Devices: pointers in insertion order
  macAddressToDevice,  \* chartData.macAddressToDevice: address -> pointer
  FetchMilliseconds,   \* chartData.FetchMilliseconds
  now,                 \* the wall clock, in sleep periods
  spc,                 \* position of the statistics goroutine
  serr,                \* fetchLanStatistics: err returned by fetchAndParse
  srows,               \* fetchLanStatistics: data rows not yet visited
  smac,                \* fetchLanStatistics: the local macAddress of the
                       \*   row the loop body ran on last
  sret,                \* fetchLanStatistics: the error returned, or nil
  passes,              \* calls of fetchLanStatistics made so far
  hpc,                 \* position of each request handler
  snap,                \* dataHandler: the local variable data, while locked
  firstRun,            \* the store as the first fetchDevices call left it,
                       \*   once a second call on the same document is made
  sstart,              \* the heap as the running fetchLanStatistics call
                       \*   found it when it took the lock
  lastSnap             \* the last two outputs of json.Marshal, while no
                       \*   statistics pass has written to the store since

store == <<heap, Devices, macAddressToDevice, FetchMilliseconds>>
dvars == <<ddoc, dtr, dret>>
svars == <<spc, serr, srows, smac, sret, passes>>
hvars == <<hpc, snap>>
hist == <<sstart, lastSnap>>
vars == <<mpc, dvars, mu, store, now, svars, hvars, firstRun, hist>>

\* value of macAddress where no row has assigned it
NoMac == <<"nil">>

\* goroutines serving GET /data
Handlers == {"h1"}

NoSnap == [Devices |-> <<>>, FetchMilliseconds |-> <<-1>>]

\* what json.Marshal(chartData) writes: the exported fields
Marshal(h, ds, fm) ==
  [Devices |-> [i \in 1..Len(ds) |->
                  [DeviceName |-> h[ds[i]].DeviceName,
                   TransmitBytes |-> TransmitBytes(h[ds[i]]),
                   ReceiveBytes |-> ReceiveBytes(h[ds[i]])]],
   FetchMilliseconds |-> fm]

\* the outputs of the last two calls of json.Marshal, the new one last
LastTwo(snaps, data) ==
  IF snaps = <<>> THEN <<data>> ELSE <<snaps[Len(snaps)], data>>

Init ==
  /\ mpc = "start"
  /\ ddoc = NoFetch /\ dtr = 0 /\ dret = "nil"
  /\ mu = "free"
  /\ heap = <<>> /\ Devices = <<>> /\ macAddressToDevice = <<>>
  /\ FetchMilliseconds = <<>>
  /\ now = 0
  /\ spc = "off" /\ serr = FALSE /\ srows = 0 /\ smac = NoMac
  /\ sret = "nil" /\ passes = 0
  /\ hpc = [h \in Handlers |-> "idle"]
  /\ snap = [h \in Handlers |-> NoSnap]
  /\ firstRun = <<>>
  /\ sstart = <<>> /\ lastSnap = <<>>

\* ------------------------------------------------------------ fetchDevices
\* FD_Call with the go statement of the recurring loop moved before it
FD_Call_GoFirst ==
  /\ mpc = "start"
  /\ mpc' = "fd_fetch"
  /\ spc' = "call"
  /\ UNCHANGED <<dvars, mu, store, now, serr, srows, smac, sret, passes,
                 hvars, firstRun, hist>>

\* main calls fetchDevices(chartData)
FD_Call ==
  /\ mpc = "start"
  /\ mpc' = "fd_fetch"
  /\ UNCHANGED <<dvars, mu, store, now, svars, hvars, firstRun, hist>>

\* fetchAndParse returns; no lock is held yet
FD_Fetch ==
  /\ mpc = "fd_fetch"
  /\ \E d \in RegFetches : ddoc' = d
  /\ mpc' = "fd_lock"
  /\ UNCHANGED <<dtr, dret, mu, store, now, svars, hvars, firstRun, hist>>

\* chartData.mu.Lock()
FD_Lock ==
  /\ mpc = "fd_lock"
  /\ mu = "free"
  /\ mu' = "main"
  /\ mpc' = "fd_find"
  /\ UNCHANGED <<dvars, store, now, svars, hvars, firstRun, hist>>

\* FD_Find returning an error when the document has no table
FD_Find_TableRequired ==
  /\ mpc = "fd_find"
  /\ IF ddoc.err \/ ~ddoc.table
       THEN mpc' = "fd_unlock" /\ dret' = "err" /\ dtr' = 0
     ELSE IF FirstWithAtom(ddoc.rows, "tr", 1) = 0
       THEN mpc' = "fd_unlock" /\ dret' = "nil" /\ dtr' = 0
     ELSE mpc' = "fd_rows" /\ dret' = "nil"
            /\ dtr' = FirstWithAtom(ddoc.rows, "tr", 1)
  /\ UNCHANGED <<ddoc, mu, store, now, svars, hvars, firstRun, hist>>

\* err check, table lookup and the loop's init statement
FD_Find ==
  /\ mpc = "fd_find"
  /\ IF ddoc.err
       THEN mpc' = "fd_unlock" /\ dret' = "err" /\ dtr' = 0
     ELSE IF ~ddoc.table
       THEN mpc' = "fd_unlock" /\ dret' = "nil" /\ dtr' = 0
     ELSE IF FirstWithAtom(ddoc.rows, "tr", 1) = 0
       THEN mpc' = "fd_unlock" /\ dret' = "nil" /\ dtr' = 0
     ELSE mpc' = "fd_rows" /\ dret' = "nil"
            /\ dtr' = FirstWithAtom(ddoc.rows, "tr", 1)
  /\ UNCHANGED <<ddoc, mu, store, now, svars, hvars, firstRun, hist>>

\* the loop's post statement tr = findFollowupSibling(tr), then its condition
FD_Advance(tr) ==
  IF tr = 0
    THEN mpc' = "fd_unlock" /\ dret' = "panic" /\ dtr' = 0
  ELSE IF findFollowupSibling(ddoc.rows, tr) = 0
    THEN mpc' = "fd_unlock" /\ dret' = "nil" /\ dtr' = 0
  ELSE mpc' = "fd_rows" /\ dret' = "nil"
         /\ dtr' = findFollowupSibling(ddoc.rows, tr)

\* FD_SkipsRow without the lookup of the address in macAddressToDevice
FD_SkipsRow_NoLookup(row) ==
  \/ ~row.th
  \/ ~row.hasTd

\* does the loop body skip the header row without reading its follower
FD_SkipsRow(row) ==
  \/ ~row.th
  \/ ~row.hasTd
  \/ Trim(row.td) \in DOMAIN macAddressToDevice

\* FD_Insert recording the time of the insertion as a fetch timestamp
FD_Insert_Stamp(macAddress, name) ==
  /\ heap' = Append(heap, NewDeviceData(name))
  /\ macAddressToDevice' =
       [m \in DOMAIN macAddressToDevice \cup {macAddress} |->
          IF m = macAddress THEN Len(heap) + 1 ELSE macAddressToDevice[m]]
  /\ Devices' = Append(Devices, Len(heap) + 1)
  /\ FetchMilliseconds' = Append(FetchMilliseconds, now)

\* macAddressToDevice[macAddress] = deviceData; Devices = append(Devices, ..)
FD_Insert(macAddress, name) ==
  /\ heap' = Append(heap, NewDeviceData(name))
  /\ macAddressToDevice' =
       [m \in DOMAIN macAddressToDevice \cup {macAddress} |->
          IF m = macAddress THEN Len(heap) + 1 ELSE macAddressToDevice[m]]
  /\ Devices' = Append(Devices, Len(heap) + 1)
  /\ UNCHANGED FetchMilliseconds

\* one iteration of the row loop
FD_Row ==
  /\ mpc = "fd_rows"
  /\ LET row == ddoc.rows[dtr]
         nxt == findFollowupSibling(ddoc.rows, dtr)
     IN IF FD_SkipsRow(row)
          THEN FD_Advance(dtr) /\ UNCHANGED store
        ELSE IF nxt = 0
          THEN FD_Advance(0) /\ UNCHANGED store
        ELSE IF ~ddoc.rows[nxt].hasTd
          THEN FD_Advance(nxt) /\ UNCHANGED store
        ELSE /\ FD_Insert(Trim(row.td),
                          ReplaceAllNewline(Trim(ddoc.rows[nxt].td)))
             /\ FD_Advance(nxt)
  /\ UNCHANGED <<ddoc, mu, now, svars, hvars, firstRun, hist>>

\* the deferred chartData.mu.Unlock(), on return and on panic alike
FD_Unlock ==
  /\ mpc = "fd_unlock"
  /\ mu' = "free"
  /\ mpc' = IF dret = "panic" THEN "crashed" ELSE "fd_returned"
  /\ UNCHANGED <<dvars, store, now, svars, hvars, firstRun, hist>>

\* ------------------------------------------------------------------- main
\* if err := fetchDevices(chartData); err != nil { log.Fatal(err) }, then the
\* go statement that starts the statistics loop
Main_AfterDevices ==
  /\ mpc = "fd_returned"
  /\ IF dret = "err"
       THEN mpc' = "fatal" /\ UNCHANGED spc
       ELSE mpc' = "listen" /\ spc' = "call"
  /\ ddoc' = NoFetch
  /\ firstRun' = <<>>
  /\ UNCHANGED <<dtr, dret, mu, store, now, serr, srows, smac, sret, passes,
                 hvars, hist>>

\* http.ListenAndServe binds the port and starts accepting requests
Main_Serve ==
  /\ mpc = "listen"
  /\ mpc' = "serving"
  /\ UNCHANGED <<dvars, mu, store, now, svars, hvars, firstRun, hist>>

\* http.ListenAndServe returns an error; main returns and the process ends
Main_ListenFailed ==
  /\ mpc = "listen"
  /\ mpc' = "exited"
  /\ UNCHANGED <<dvars, mu, store, now, svars, hvars, firstRun, hist>>

\* the process runs until log.Fatal, a panic or the return of main
Alive == mpc \notin {"fatal", "crashed", "exited"}

\* ------------------------------------------------------ fetchLanStatistics
\* texts of the hardware-address cells (column 0) of the statistics table:
\* the address A of the device table, and an address the device table never
\* lists
StatMacs == { <<"A", "\t">>, <<"Z">> }

\* texts of the transmit cells (column 7) of the statistics table: 1024, a
\* non-number, and 3000000000
Col7Texts ==
  { <<"1", "0", "2", "4">>,
    <<"a", "b", "c">>,
    <<"3", "0", "0", "0", "0", "0", "0", "0", "0", "0">> }

\* texts of the receive cells (column 8): 2048 with white space around it, a
\* non-number, and 3000000000
Col8Texts ==
  { <<" ", "2", "0", "4", "8", "\n">>,
    <<"a", "b", "c">>,
    <<"3", "0", "0", "0", "0", "0", "0", "0", "0", "0">> }

Td(t) == [atom |-> "td", text |-> t]
Th(t) == [atom |-> "th", text |-> t]
Filler == Td(<<"x">>)

\* a row with cells at columns 0..8
FullRow(m, c7, c8) ==
  <<Td(m), Filler, Filler, Filler, Filler, Filler, Filler, Td(c7), Td(c8)>>

\* the children of a data row of the statistics table: all nine columns, the
\* same with a th cell among the td cells, columns 0..7 only, or no cell
StatRows ==
  { FullRow(m, c7, c8) : m \in StatMacs, c7 \in Col7Texts, c8 \in Col8Texts }
    \cup { <<Td(m), Th(<<"x">>)>> \o Tail(FullRow(m, <<"1", "0", "2", "4">>, c8)) :
             m \in StatMacs, c8 \in Col8Texts }
    \cup { SubSeq(FullRow(m, c7, c7), 1, 8) : m \in StatMacs, c7 \in Col7Texts }
    \cup { <<>> }

\* macAddress := strings.Trim(getInnerText(td), " \t\n") at columnIndex 0
SL_MacAddress(cells) ==
  IF FirstWithAtom(cells, "td", 1) = 0 THEN NoMac
  ELSE Trim(cells[FirstWithAtom(cells, "td", 1)].text)

\* SL_Resolve falling back to the first device for an unknown address
SL_Resolve_Fallback(macAddress) ==
  IF macAddress \in DOMAIN macAddressToDevice
    THEN macAddressToDevice[macAddress]
  ELSE IF Devices # <<>> THEN Devices[1] ELSE 0

\* chartData.macAddressToDevice[macAddress], 0 for the nil of a missing key
SL_Resolve(macAddress) ==
  IF macAddress \in DOMAIN macAddressToDevice
    THEN macAddressToDevice[macAddress] ELSE 0

\* the body of the cell loop for the cell at columnIndex 7
SL_Column7(h, deviceData, text) ==
  IF ParseInt(Trim(text)).err = "nil"
    THEN [h EXCEPT ![deviceData] = AppendTransmit(@, ParseInt(Trim(text)).val)]
    ELSE h

\* the body of the cell loop for the cell at columnIndex 8
SL_Column8(h, deviceData, text) ==
  IF ParseInt(Trim(text)).err = "nil"
    THEN [h EXCEPT ![deviceData] = AppendReceive(@, ParseInt(Trim(text)).val)]
    ELSE h

\* the cell loop of one row, from the cell td on: the heap it leaves
RECURSIVE SL_Cells(_, _, _, _, _)
SL_Cells(h, cells, td, columnIndex, deviceData) ==
  IF td = 0 THEN h
  ELSE LET dd == IF columnIndex = 0
                   THEN SL_Resolve(Trim(cells[td].text)) ELSE deviceData
           h7 == IF dd # 0 /\ columnIndex = 7
                   THEN SL_Column7(h, dd, cells[td].text) ELSE h
           h8 == IF dd # 0 /\ columnIndex = 8
                   THEN SL_Column8(h7, dd, cells[td].text) ELSE h7
       IN SL_Cells(h8, cells, findFollowupSibling(cells, td),
                   columnIndex + 1, dd)

\* SL_Call with chartData.mu.Lock() moved before the fetch
SL_Call_LockFirst ==
  /\ Alive
  /\ spc = "call"
  /\ passes < MaxPasses
  /\ mu = "free"
  /\ mu' = "stats"
  /\ spc' = "sl_fetch"
  /\ passes' = passes + 1
  /\ UNCHANGED <<mpc, dvars, store, now, serr, srows, smac, sret, hvars,
                 firstRun, hist>>

\* one iteration of the recurring loop begins: fetchLanStatistics is called
SL_Call ==
  /\ Alive
  /\ spc = "call"
  /\ passes < MaxPasses
  /\ spc' = "sl_fetch"
  /\ passes' = passes + 1
  /\ UNCHANGED <<mpc, dvars, mu, store, now, serr, srows, smac, sret, hvars, firstRun, hist>>

\* fetchAndParse returns a document or an error; no lock is held yet
SL_Fetch ==
  /\ Alive
  /\ spc = "sl_fetch"
  /\ serr' \in BOOLEAN
  /\ spc' = "sl_lock"
  /\ UNCHANGED <<mpc, dvars, mu, store, now, srows, smac, sret, passes, hvars, firstRun, hist>>

\* chartData.mu.Lock()
SL_Lock ==
  /\ Alive
  /\ spc = "sl_lock"
  /\ mu = "free"
  /\ mu' = "stats"
  /\ spc' = "sl_stamp"
  /\ sstart' = <<heap>>
  /\ UNCHANGED <<mpc, dvars, store, now, serr, srows, smac, sret, passes,
                 hvars, firstRun, lastSnap>>

\* SL_Stamp with the append placed after the err check
SL_Stamp_AfterErrCheck ==
  /\ Alive
  /\ spc = "sl_stamp"
  /\ FetchMilliseconds' =
       IF serr THEN FetchMilliseconds ELSE Append(FetchMilliseconds, now)
  /\ spc' = "sl_find"
  /\ lastSnap' = <<>>
  /\ UNCHANGED <<mpc, dvars, mu, heap, Devices, macAddressToDevice, now,
                 serr, srows, smac, sret, passes, hvars, firstRun, sstart>>

\* FetchMilliseconds = append(FetchMilliseconds, time.Now()...)
SL_Stamp ==
  /\ Alive
  /\ spc = "sl_stamp"
  /\ FetchMilliseconds' = Append(FetchMilliseconds, now)
  /\ spc' = "sl_find"
  /\ lastSnap' = <<>>
  /\ UNCHANGED <<mpc, dvars, mu, heap, Devices, macAddressToDevice, now,
                 serr, srows, smac, sret, passes, hvars, firstRun, sstart>>

\* err check, table lookup, header row lookup and the row loop's init
\* statement.  The document is read once, front to back, so the model draws
\* its parts when the pass reads them: here whether it has the table and a
\* first tr, and how many tr siblings follow that one.
SL_Find ==
  /\ Alive
  /\ spc = "sl_find"
  /\ IF serr
       THEN spc' = "sl_unlock" /\ sret' = "fetch failed" /\ srows' = 0
       ELSE \E table \in BOOLEAN, tr \in BOOLEAN, n \in 0..MaxStatRows :
              IF ~table
                THEN spc' = "sl_unlock" /\ sret' = "Table not found"
                       /\ srows' = 0
              ELSE IF ~tr
                THEN spc' = "sl_unlock" /\ sret' = "Tr not found"
                       /\ srows' = 0
              ELSE IF n = 0
                THEN spc' = "sl_unlock" /\ sret' = "nil" /\ srows' = 0
              ELSE spc' = "sl_rows" /\ sret' = "nil" /\ srows' = n
  /\ UNCHANGED <<mpc, dvars, mu, store, now, serr, smac, passes, hvars, firstRun, hist>>

\* one iteration of the row loop, over a row with the given cells
SL_Row ==
  /\ Alive
  /\ spc = "sl_rows"
  /\ \E cells \in StatRows :
       /\ heap' = SL_Cells(heap, cells, FirstWithAtom(cells, "td", 1), 0, 0)
       /\ smac' = SL_MacAddress(cells)
  /\ srows' = srows - 1
  /\ spc' = IF srows = 1 THEN "sl_unlock" ELSE "sl_rows"
  /\ UNCHANGED <<mpc, dvars, mu, Devices, macAddressToDevice,
                 FetchMilliseconds, now, serr, sret, passes, hvars, firstRun, hist>>

\* SL_Unlock with the Unlock written at the end of the function instead of
\* deferred: the returns with an error leave the lock held
SL_Unlock_OnSuccess ==
  /\ Alive
  /\ spc = "sl_unlock"
  /\ mu' = IF sret = "nil" THEN "free" ELSE mu
  /\ spc' = "sl_returned"
  /\ smac' = NoMac
  /\ sstart' = <<>>
  /\ UNCHANGED <<mpc, dvars, store, now, serr, srows, sret, passes, hvars,
                 firstRun, lastSnap>>

\* the deferred chartData.mu.Unlock()
SL_Unlock ==
  /\ Alive
  /\ spc = "sl_unlock"
  /\ mu' = "free"
  /\ spc' = "sl_returned"
  /\ smac' = NoMac
  /\ sstart' = <<>>
  /\ UNCHANGED <<mpc, dvars, store, now, serr, srows, sret, passes, hvars,
                 firstRun, lastSnap>>

\* SL_Sleep leaving the loop when the pass returned an error
SL_Sleep_StopOnError ==
  /\ Alive
  /\ spc = "sl_returned"
  /\ now' = now + 1
  /\ spc' = IF sret = "nil" THEN "call" ELSE "stopped"
  /\ UNCHANGED <<mpc, dvars, mu, store, serr, srows, smac, sret, passes,
                 hvars, firstRun, hist>>

\* log.Print(err) when err != nil, then time.Sleep(10 * time.Second)
SL_Sleep ==
  /\ Alive
  /\ spc = "sl_returned"
  /\ now' = now + 1
  /\ spc' = "call"
  /\ UNCHANGED <<mpc, dvars, mu, store, serr, srows, smac, sret, passes, hvars, firstRun, hist>>

\* ------------------------------------------------------------- dataHandler
\* a GET /data request arrives and its handler goroutine starts
H_Request(h) ==
  /\ mpc = "serving"
  /\ hpc[h] = "idle"
  /\ hpc' = [hpc EXCEPT ![h] = "h_lock"]
  /\ UNCHANGED <<mpc, dvars, mu, store, now, svars, snap, firstRun, hist>>

\* H_Lock that does not wait for the lock to be free
H_Lock_NoWait(h) ==
  /\ Alive
  /\ hpc[h] = "h_lock"
  /\ mu' = h
  /\ hpc' = [hpc EXCEPT ![h] = "h_marshal"]
  /\ UNCHANGED <<mpc, dvars, store, now, svars, snap, firstRun, hist>>

\* chartData.mu.Lock()
H_Lock(h) ==
  /\ Alive
  /\ hpc[h] = "h_lock"
  /\ mu = "free"
  /\ mu' = h
  /\ hpc' = [hpc EXCEPT ![h] = "h_marshal"]
  /\ UNCHANGED <<mpc, dvars, store, now, svars, snap, firstRun, hist>>

\* H_Marshal emptying the timestamp sequence once it is serialized
H_Marshal_Drain(h) ==
  /\ Alive
  /\ hpc[h] = "h_marshal"
  /\ snap' = [snap EXCEPT ![h] = Marshal(heap, Devices, FetchMilliseconds)]
  /\ hpc' = [hpc EXCEPT ![h] = "h_unlock"]
  /\ lastSnap' = LastTwo(lastSnap, Marshal(heap, Devices, FetchMilliseconds))
  /\ FetchMilliseconds' = <<>>
  /\ UNCHANGED <<mpc, dvars, mu, heap, Devices, macAddressToDevice, now,
                 svars, firstRun, sstart>>

\* data, err := json.Marshal(chartData)
H_Marshal(h) ==
  /\ Alive
  /\ hpc[h] = "h_marshal"
  /\ snap' = [snap EXCEPT ![h] = Marshal(heap, Devices, FetchMilliseconds)]
  /\ hpc' = [hpc EXCEPT ![h] = "h_unlock"]
  /\ lastSnap' = LastTwo(lastSnap, Marshal(heap, Devices, FetchMilliseconds))
  /\ UNCHANGED <<mpc, dvars, mu, store, now, svars, firstRun, sstart>>

\* chartData.mu.Unlock().  From here on data is only sent to the client and
\* nothing in the program reads it again, so the model stops tracking it.
H_Unlock(h) ==
  /\ Alive
  /\ hpc[h] = "h_unlock"
  /\ mu' = "free"
  /\ hpc' = [hpc EXCEPT ![h] = "h_write"]
  /\ snap' = [snap EXCEPT ![h] = NoSnap]
  /\ UNCHANGED <<mpc, dvars, store, now, svars, firstRun, hist>>

\* w.Write(data); the handler returns
H_Write(h) ==
  /\ Alive
  /\ hpc[h] = "h_write"
  /\ hpc' = [hpc EXCEPT ![h] = "idle"]
  /\ UNCHANGED <<mpc, dvars, mu, store, now, svars, snap, firstRun, hist>>

Next ==
  \/ FD_Call \/ FD_Fetch \/ FD_Lock \/ FD_Find \/ FD_Row \/ FD_Unlock
  \/ Main_AfterDevices \/ Main_Serve \/ Main_ListenFailed
  \/ SL_Call \/ SL_Fetch \/ SL_Lock \/ SL_Stamp \/ SL_Find \/ SL_Row
  \/ SL_Unlock \/ SL_Sleep
  \/ \E h \in Handlers :
       H_Request(h) \/ H_Lock(h) \/ H_Marshal(h) \/ H_Unlock(h) \/ H_Write(h)

\* the program as main runs it
Spec == Init /\ [][Next]_vars

\* ------------------------------------------------- a second registry pass
\* fetchDevices is called a second time, and fetchAndParse returns the
\* document of the first call again
FD_Rerun ==
  /\ mpc = "fd_returned"
  /\ dret = "nil"
  /\ firstRun = <<>>
  /\ firstRun' = <<store>>
  /\ mpc' = "fd_lock"
  /\ UNCHANGED <<dvars, mu, store, now, svars, hvars, hist>>

NextRerun == Next \/ FD_Rerun

\* the program with fetchDevices run once or twice before main goes on
SpecRerun == Init /\ [][NextRerun]_vars

\* ------------------------------------------------------------- scheduling
\* The Go scheduler runs every goroutine that can take a step: main up to
\* the call of ListenAndServe, the recurring goroutine between its fetches,
\* and a handler from its Lock on.  A call of Lock is served although the
\* lock is only free now and again, since sync.Mutex hands the lock to a
\* goroutine that has waited for it.  No fetch is bound to return, no
\* request is bound to arrive, and ListenAndServe is not bound to serve.
Fairness ==
  /\ WF_vars(FD_Call) /\ WF_vars(FD_Fetch) /\ WF_vars(FD_Lock)
  /\ WF_vars(FD_Find) /\ WF_vars(FD_Row) /\ WF_vars(FD_Unlock)
  /\ WF_vars(Main_AfterDevices)
  /\ WF_vars(SL_Call) /\ SF_vars(SL_Lock) /\ WF_vars(SL_Stamp)
  /\ WF_vars(SL_Find) /\ WF_vars(SL_Row) /\ WF_vars(SL_Unlock)
  /\ WF_vars(SL_Sleep)
  /\ \A h \in Handlers :
       /\ SF_vars(H_Lock(h)) /\ WF_vars(H_Marshal(h))
       /\ WF_vars(H_Unlock(h)) /\ WF_vars(H_Write(h))

\* the program as main runs it, under the scheduling above
SpecFair == Init /\ [][Next]_vars /\ Fairness

\* ============================================================= properties
IsPrefix(a, b) == Len(a) <= Len(b) /\ SubSeq(b, 1, Len(a)) = a

IsTd(c) == c.atom = "td"

\* the data cells of a row, column 0 first
Columns(cells) == SelectSeq(cells, IsTd)

\* the step is the row loop's body run on a row with these cells
RowStep(cells) ==
  /\ spc = "sl_rows"
  /\ srows' = srows - 1
  /\ smac' = SL_MacAddress(cells)
  /\ heap' = SL_Cells(heap, cells, FirstWithAtom(cells, "td", 1), 0, 0)

\* column 0 of the row holds the address of a registered device
KnownRow(cells) ==
  /\ Columns(cells) # <<>>
  /\ Trim(Columns(cells)[1].text) \in DOMAIN macAddressToDevice

\* the Device Record the row's column 0 names
RowDevice(cells) == macAddressToDevice[Trim(Columns(cells)[1].text)]

\* the trimmed text is a base-10 signed integer of at most 18 digits, which
\* every 64-bit signed integer type can hold
IsInt64Text(t) == IsBase10(Trim(t)) /\ Len(Unsigned(Trim(t))) <= 18

\* the series of every device are what they were before the step
SeriesUnchanged ==
  /\ Len(heap') = Len(heap)
  /\ \A i \in 1..Len(heap) :
       /\ TransmitBytes(heap'[i]) = TransmitBytes(heap[i])
       /\ ReceiveBytes(heap'[i]) = ReceiveBytes(heap[i])

\* C1: in every reachable state, every device has at most as many transmit
\* samples and at most as many receive samples as there are fetch timestamps.
C1_SeriesWithinTimestamps ==
  \A i \in 1..Len(heap) :
    /\ Len(TransmitBytes(heap[i])) <= Len(FetchMilliseconds)
    /\ Len(ReceiveBytes(heap[i])) <= Len(FetchMilliseconds)

\* C2: a row of a registered device whose columns 7 and 8 both parse appends
\* the column-7 value to the transmit series and the column-8 value to the
\* receive series, and changes nothing else of either series.
C2_RowAppendsToBothSeries ==
  [][\A cells \in StatRows :
       ( /\ RowStep(cells)
         /\ KnownRow(cells)
         /\ Len(Columns(cells)) >= 9
         /\ ParseInt(Trim(Columns(cells)[8].text)).err = "nil"
         /\ ParseInt(Trim(Columns(cells)[9].text)).err = "nil" )
       => /\ TransmitBytes(heap'[RowDevice(cells)]) =
               Append(TransmitBytes(heap[RowDevice(cells)]),
                      ParseInt(Trim(Columns(cells)[8].text)).val)
          /\ ReceiveBytes(heap'[RowDevice(cells)]) =
               Append(ReceiveBytes(heap[RowDevice(cells)]),
                      ParseInt(Trim(Columns(cells)[9].text)).val)]_vars

\* C3: every step leaves the old transmit series a prefix of the new one and
\* the old receive series a prefix of the new one, for every device.
C3_SeriesAppendOnly ==
  [][\A i \in 1..Len(heap) :
       /\ i <= Len(heap')
       /\ IsPrefix(TransmitBytes(heap[i]), TransmitBytes(heap'[i]))
       /\ IsPrefix(ReceiveBytes(heap[i]), ReceiveBytes(heap'[i]))]_vars

\* C4: every call of fetchLanStatistics appends exactly one timestamp,
\* whatever its outcome: the timestamps number the calls made, less the
\* current call while it has not reached its append.
C4_OneTimestampPerInvocation ==
  Len(FetchMilliseconds) =
    IF spc \in {"sl_fetch", "sl_lock", "sl_stamp"} THEN passes - 1 ELSE passes

\* a failed second pass has returned, and there are two timestamps
C4_Witness ==
  /\ spc = "sl_returned"
  /\ sret = "Table not found"
  /\ passes = 2
  /\ Len(FetchMilliseconds) = 2

\* C5: what a handler serializes is the store as it is outside any pass: no
\* handler holds a snapshot while a statistics pass is between its timestamp
\* append and its last series append.
C5_SnapshotNotTorn ==
  \A h \in Handlers :
    hpc[h] = "h_unlock" =>
      /\ spc \notin {"sl_find", "sl_rows"}
      /\ snap[h] = Marshal(heap, Devices, FetchMilliseconds)

\* a handler holds a snapshot with recorded samples while the next
\* statistics pass waits for the lock
C5_Witness ==
  \E h \in Handlers :
    /\ hpc[h] = "h_unlock"
    /\ spc = "sl_lock"
    /\ Len(snap[h].FetchMilliseconds) >= 1
    /\ \E i \in 1..Len(snap[h].Devices) :
         snap[h].Devices[i].TransmitBytes # <<>>

\* C6: when a second fetchDevices call on the same document has returned,
\* the store is as the first call left it.
C6_RerunIsNoOp ==
  (firstRun # <<>> /\ mpc = "fd_returned") => store = firstRun[1]

\* the row the registry loop is at carries the address header but no data
\* cell, or names an unregistered address while no row follows it or the row
\* that follows has no data cell
MalformedCandidate ==
  LET row == ddoc.rows[dtr]
      nxt == findFollowupSibling(ddoc.rows, dtr)
  IN /\ row.th
     /\ \/ ~row.hasTd
        \/ /\ Trim(row.td) \notin DOMAIN macAddressToDevice
           /\ (nxt = 0 \/ ~ddoc.rows[nxt].hasTd)

\* C7: the registry loop, at a malformed candidate, changes nothing in the
\* store and goes on to finish the pass normally.
C7_MalformedRowSkipped ==
  [][(mpc = "fd_rows" /\ MalformedCandidate) =>
       (store' = store /\ dret' = "nil"
          /\ mpc' \in {"fd_rows", "fd_unlock"})]_vars

\* C8: the mapping and the ordered list hold the same records: each record
\* of the mapping is once in the list, each record of the list is the value
\* of one address, and there is one record per registered address.
C8_MapAndListAgree ==
  /\ \A m \in DOMAIN macAddressToDevice :
       Cardinality({ i \in 1..Len(Devices) :
                       Devices[i] = macAddressToDevice[m] }) = 1
  /\ \A i \in 1..Len(Devices) :
       Cardinality({ m \in DOMAIN macAddressToDevice :
                       macAddressToDevice[m] = Devices[i] }) = 1
  /\ Len(heap) = Cardinality(DOMAIN macAddressToDevice)

\* the document lists one address in two header rows
ListsAddressTwice(doc) ==
  \E i, j \in 1..Len(doc.rows) :
    /\ i < j
    /\ doc.rows[i].th /\ doc.rows[i].hasTd
    /\ doc.rows[j].th /\ doc.rows[j].hasTd
    /\ Trim(doc.rows[i].td) = Trim(doc.rows[j].td)

\* a second registry pass has returned over a document that lists a
\* registered address twice
C8_Witness ==
  /\ mpc = "fd_returned"
  /\ firstRun # <<>>
  /\ ListsAddressTwice(ddoc)
  /\ \E i \in 1..Len(ddoc.rows) :
       /\ ddoc.rows[i].th /\ ddoc.rows[i].hasTd
       /\ Trim(ddoc.rows[i].td) \in DOMAIN macAddressToDevice

\* the series is the old series with one sample appended, which is the
\* value of the text where ParseInt yields it
AppendedText(old, new, t) ==
  /\ Len(new) = Len(old) + 1
  /\ SubSeq(new, 1, Len(old)) = old
  /\ ParseInt(Trim(t)).err = "nil" => new[Len(new)] = ParseInt(Trim(t)).val

\* the series ends with a sample for the text, which is the value of the
\* text where ParseInt yields it
LastIsText(new, t) ==
  /\ new # <<>>
  /\ ParseInt(Trim(t)).err = "nil" => new[Len(new)] = ParseInt(Trim(t)).val

\* C9: a transmit cell whose text is a 64-bit base-10 integer is appended to
\* the transmit series, a transmit cell with any other text appends nothing,
\* and a receive cell whose text is a 64-bit base-10 integer becomes the last
\* receive sample.
C9_Int64CellsAppended ==
  [][\A cells \in StatRows :
       (RowStep(cells) /\ KnownRow(cells) /\ Len(Columns(cells)) >= 8)
       => /\ IF IsInt64Text(Columns(cells)[8].text)
               THEN AppendedText(TransmitBytes(heap[RowDevice(cells)]),
                                 TransmitBytes(heap'[RowDevice(cells)]),
                                 Columns(cells)[8].text)
               ELSE TransmitBytes(heap'[RowDevice(cells)]) =
                      TransmitBytes(heap[RowDevice(cells)])
          /\ (Len(Columns(cells)) >= 9
                /\ IsInt64Text(Columns(cells)[9].text))
               => LastIsText(ReceiveBytes(heap'[RowDevice(cells)]),
                             Columns(cells)[9].text)]_vars

\* C10: a run of the row loop's body on a row whose column 0 is not a
\* registered address leaves every series of every device as it was.
C10_UnknownRowMutatesNothing ==
  [][( /\ spc = "sl_rows"
       /\ srows' = srows - 1
       /\ smac' # NoMac
       /\ smac' \notin DOMAIN macAddressToDevice )
     => SeriesUnchanged]_vars

\* the first pass has run its last row on an unregistered address, after a
\* row that appended to a registered device
C10_Witness ==
  /\ spc = "sl_unlock"
  /\ passes = 1
  /\ smac # NoMac
  /\ smac \notin DOMAIN macAddressToDevice
  /\ \E i \in 1..Len(heap) : heap[i].txLen > 0

\* the text of the row's n-th data cell, column 0 first, as line 179 and
\* line 184 hand it to the parser
CellText(cells, n) == Trim(Columns(cells)[n + 1].text)

\* C11: a row of a registered device with exactly one of columns 7 and 8
\* parsing skips only the failed append: the series of the failed column is
\* unchanged, the series of the other column gains exactly the parsed value,
\* and the pass goes on without an error.
C11_ParseFailureSkipsOneAppend ==
  [][\A cells \in StatRows :
       (RowStep(cells) /\ KnownRow(cells) /\ Len(Columns(cells)) >= 9)
       => /\ ( /\ ParseInt(CellText(cells, 7)).err # "nil"
               /\ ParseInt(CellText(cells, 8)).err = "nil" )
             => /\ TransmitBytes(heap'[RowDevice(cells)]) =
                     TransmitBytes(heap[RowDevice(cells)])
                /\ ReceiveBytes(heap'[RowDevice(cells)]) =
                     Append(ReceiveBytes(heap[RowDevice(cells)]),
                            ParseInt(CellText(cells, 8)).val)
                /\ sret' = "nil"
          /\ ( /\ ParseInt(CellText(cells, 7)).err = "nil"
               /\ ParseInt(CellText(cells, 8)).err # "nil" )
             => /\ TransmitBytes(heap'[RowDevice(cells)]) =
                     Append(TransmitBytes(heap[RowDevice(cells)]),
                            ParseInt(CellText(cells, 7)).val)
                /\ ReceiveBytes(heap'[RowDevice(cells)]) =
                     ReceiveBytes(heap[RowDevice(cells)])
                /\ sret' = "nil"]_vars

\* C12: a task inside fetchAndParse, a handler writing its response, and the
\* recurring task logging and sleeping between two passes do not own the lock.
C12_NoLockDuringIO ==
  /\ mpc = "fd_fetch" => mu # "main"
  /\ spc \in {"sl_fetch", "sl_returned"} => mu # "stats"
  /\ \A h \in Handlers : hpc[h] = "h_write" => mu # h

\* a handler owns the lock and serializes recorded samples while the next
\* statistics pass is inside its fetch
C12_Witness ==
  /\ spc = "sl_fetch"
  /\ \E h \in Handlers : hpc[h] = "h_marshal" /\ mu = h
  /\ \E i \in 1..Len(heap) : TransmitBytes(heap[i]) # <<>>

\* C13: while a statistics pass holds the lock, every series is at most one
\* element longer than it was when the pass took the lock, and a pass that
\* has read no row with a data cell has changed no series.
C13_AtMostOneAppendPerPass ==
  sstart # <<>> =>
    /\ Len(heap) = Len(sstart[1])
    /\ \A i \in 1..Len(heap) :
         /\ Len(TransmitBytes(heap[i])) <=
              Len(TransmitBytes(sstart[1][i])) + 1
         /\ Len(ReceiveBytes(heap[i])) <= Len(ReceiveBytes(sstart[1][i])) + 1
    /\ (spc = "sl_unlock" /\ smac = NoMac) => heap = sstart[1]

\* C14: a fetchDevices call on a document without a table returns nil with
\* the store still empty; a fetchLanStatistics call on a document without a
\* table returns an error with every series as the call found it and with
\* its own timestamp appended.
C14_MissingTableAsymmetry ==
  /\ (mpc \in {"fd_unlock", "fd_returned"} /\ ~ddoc.err /\ ~ddoc.table)
       => /\ dret = "nil"
          /\ heap = <<>> /\ Devices = <<>> /\ macAddressToDevice = <<>>
          /\ FetchMilliseconds = <<>>
  /\ (spc = "sl_unlock" /\ sret = "Table not found")
       => /\ heap = sstart[1]
          /\ Len(FetchMilliseconds) = passes

\* the second statistics pass found no table, after a first pass that
\* recorded a sample
C14_Witness ==
  /\ spc = "sl_unlock"
  /\ sret = "Table not found"
  /\ passes = 2
  /\ \E i \in 1..Len(heap) : TransmitBytes(heap[i]) # <<>>

\* the last statistics pass returned an error and the recurring goroutine
\* has not yet called the next one
FailedPassReturned == spc = "sl_returned" /\ sret # "nil" /\ passes < MaxPasses

\* fetchDevices returned an error: no statistics pass is or was running and
\* no handler is or was serving
RegistryFailureStopsAll ==
  dret = "err" =>
    /\ spc = "off" /\ passes = 0 /\ FetchMilliseconds = <<>>
    /\ mpc \notin {"listen", "serving"}
    /\ lastSnap = <<>>
    /\ \A h \in Handlers : hpc[h] = "idle"

\* C15 as claimed: an error of fetchDevices leads to log.Fatal with no
\* statistics pass and no snapshot ever, and after every statistics pass
\* that returned an error fetchLanStatistics is called again.
C15_FailedPassAlwaysRetried ==
  /\ []RegistryFailureStopsAll
  /\ (dret = "err") ~> (mpc = "fatal")
  /\ FailedPassReturned ~> (spc = "sl_fetch")

\* C15, amended: as above, but fetchLanStatistics is called again only as
\* long as the process runs; main returning from a failed ListenAndServe
\* ends the recurring goroutine with it.
C15_FailedPassRetriedWhileAlive ==
  /\ []RegistryFailureStopsAll
  /\ (dret = "err") ~> (mpc = "fatal")
  /\ FailedPassReturned ~> (spc = "sl_fetch" \/ ~Alive)

\* the second statistics pass is inside its fetch after a first pass that
\* returned an error, with the server up
C15_Witness ==
  /\ spc = "sl_fetch"
  /\ passes = 2
  /\ sret # "nil"
  /\ mpc = "serving"

\* main is inside its call of fetchDevices
InRegistryPass ==
  mpc \in {"fd_fetch", "fd_lock", "fd_find", "fd_rows", "fd_unlock"}

\* C16: whenever the recurring goroutine exists or a handler runs, main has
\* returned from fetchDevices and does not own the lock; fetchDevices is
\* entered from the start of main only, and main never is at its start again.
C16_RegistryOnceAndFirst ==
  /\ []((spc # "off" \/ \E h \in Handlers : hpc[h] # "idle")
          => /\ mpc \in {"listen", "serving", "exited"}
             /\ mu # "main"
             /\ dret = "nil")
  /\ [][(InRegistryPass' /\ ~InRegistryPass) => mpc = "start"]_vars
  /\ [][mpc # "start" => mpc' # "start"]_vars

\* a statistics pass is in its row loop and a handler waits for the lock,
\* with the devices of the one registry pass in the store
C16_Witness ==
  /\ spc = "sl_rows"
  /\ mpc = "serving"
  /\ Len(Devices) = 2
  /\ \E h \in Handlers : hpc[h] = "h_lock"

\* C17: no step of a handler changes the store, and two calls of
\* json.Marshal return the same output when no statistics pass has written
\* to the store since the first of them (no registry pass runs by then).
C17_SnapshotPureAndStable ==
  /\ [][\A h \in Handlers : hpc'[h] # hpc[h] => store' = store]_vars
  /\ [](Len(lastSnap) = 2 => lastSnap[1] = lastSnap[2])
  /\ [](\A h \in Handlers : hpc[h] = "h_unlock" =>
          snap[h] = lastSnap[Len(lastSnap)])

\* two requests in a row were served the store with recorded samples: the
\* first pass had returned before them, the second has not written yet
C17_Witness ==
  /\ Len(lastSnap) = 2
  /\ passes = 2
  /\ spc \in {"sl_fetch", "sl_lock"}
  /\ \E i \in 1..Len(lastSnap[2].Devices) :
       lastSnap[2].Devices[i].TransmitBytes # <<>>

\* the step adds no record, removes none, and leaves the order of the
\* records, their names and the address mapping as they were
RegistryUnchanged ==
  /\ Devices' = Devices
  /\ macAddressToDevice' = macAddressToDevice
  /\ Len(heap') = Len(heap)
  /\ \A i \in 1..Len(heap) : heap'[i].DeviceName = heap[i].DeviceName

\* the step leaves every record there was with its name and its two series
RecordsUnchanged ==
  /\ Len(heap') >= Len(heap)
  /\ \A i \in 1..Len(heap) :
       /\ heap'[i].DeviceName = heap[i].DeviceName
       /\ TransmitBytes(heap'[i]) = TransmitBytes(heap[i])
       /\ ReceiveBytes(heap'[i]) = ReceiveBytes(heap[i])

\* C18: a step taken while a statistics pass owns the lock, and every step
\* after main has returned from fetchDevices for good, leaves the records,
\* their order, their names and the address mapping as they were; a step
\* taken while fetchDevices owns the lock leaves every record there was and
\* the timestamp sequence as they were.
C18_PassesKeepToTheirPart ==
  [][/\ (mu = "stats" \/ mu' = "stats" \/ mpc \in {"listen", "serving"})
          => RegistryUnchanged
     /\ (mu = "main" \/ mu' = "main")
          => (RecordsUnchanged /\ FetchMilliseconds' = FetchMilliseconds)
    ]_vars

\* a statistics pass has appended samples for one of two registered devices
\* and is about to return
C18_Witness ==
  /\ spc = "sl_unlock"
  /\ Len(Devices) = 2
  /\ \E i \in 1..Len(heap) : TransmitBytes(heap[i]) # <<>>
  /\ \E i \in 1..Len(heap) : ReceiveBytes(heap[i]) = <<>>

\* whoever owns the lock is between its Lock and its Unlock
LockOwnerInside ==
  /\ mu = "main" => mpc \in {"fd_find", "fd_rows", "fd_unlock"}
  /\ mu = "stats" => spc \in {"sl_stamp", "sl_find", "sl_rows", "sl_unlock"}
  /\ \A h \in Handlers : mu = h => hpc[h] \in {"h_marshal", "h_unlock"}

\* C19: the lock is owned only by a task between its Lock and its Unlock;
\* every handler that has reached its Lock gets the lock, and so does every
\* statistics pass that waits in Lock while another task owns the lock.
C19_LockReleasedAndAcquired ==
  /\ []LockOwnerInside
  /\ \A h \in Handlers : (hpc[h] = "h_lock") ~> (hpc[h] = "h_marshal")
  /\ (spc = "sl_lock" /\ mu # "free") ~> (spc = "sl_stamp")

\* the second statistics pass waits in Lock while a handler owns the lock,
\* which the first pass released on its return of "Tr not found"
C19_Witness ==
  /\ spc = "sl_lock"
  /\ passes = 2
  /\ sret = "Tr not found"
  /\ \E h \in Handlers : hpc[h] = "h_marshal" /\ mu = h

====
